---- MODULE Spec2Model ----
(***************************************************************************)
(* A model of scripts/clone_kydao_db.py: the crawl-and-ingest engine of    *)
(* kydao.vn.  The module holds one state machine per component             *)
(*   SpecFetch  fetch_html             (retry loop)                        *)
(*   SpecWalk   parse_pagination_links (the pagination generator)          *)
(*   SpecStore  save_game              (the MongoDB upserts)               *)
(*   SpecParse  parse_game_links + parse_game (one listing page)           *)
(*   Spec       parse_home_page        (the traversal driver, which runs   *)
(*              the three generators and save_game as the code nests them) *)
(* over one set of variables; a component's specification leaves the       *)
(* variables of the others at their initial values.                        *)
(*                                                                         *)
(* Conventions.  Optional[str] is a sequence of length <= 1: <<>> is None  *)
(* and <<v>> is the value v.  The web site and the store are the           *)
(* environment: what a fetch returns and whether a store operation fails   *)
(* is chosen by \E from the bounded sets defined below.                    *)
(***************************************************************************)
EXTENDS Integers, Sequences, FiniteSets, TLC

VARIABLES
  fetch,         \* fetch_html: the activation of one call
  walk,          \* parse_pagination_links: the generator's frame
  links,         \* parse_game_links: the generator's frame
  players,       \* players: Dict[str, Player]
  games,         \* games: Set[tuple]
  events,        \* events: Dict[str, Event]
  player_queue,  \* player_queue: List[Player]
  db,            \* the MongoDB database: collections players, events, games
  mongo,         \* the store's environment of this run
  home,          \* parse_home_page: the driver's frame and position
  hist           \* history: what the run has done so far (not program state)

vars == <<fetch, walk, links, players, games, events, player_queue, db, mongo, home, hist>>

None == <<>>
Some(v) == <<v>>

Last(s) == s[Len(s)]

RECURSIVE SeqsUpTo(_, _)
\* All sequences over S of length at most n.
SeqsUpTo(S, n) ==
  IF n = 0 THEN {<<>>}
  ELSE LET shorter == SeqsUpTo(S, n - 1)
       IN shorter \cup {Append(s, x) : s \in {t \in shorter : Len(t) = n - 1}, x \in S}

(***************************************************************************)
(* fetch_html                                                              *)
(***************************************************************************)
MaxRetries == 3

Errors == {"timeout", "http500"}
Bodies == {"b1", "b2"}
Encodings == {"utf-8", "windows-1258"}

\* What session.get + raise_for_status gives on one attempt: a response, or
\* an exception.
Responses ==
  [kind : {"ok"}, body : Bodies, encoding : {None} \cup {Some(e) : e \in Encodings},
   apparent_encoding : Encodings, err : {"-"}]
  \cup [kind : {"err"}, body : {"-"}, encoding : {None}, apparent_encoding : {"utf-8"},
        err : Errors]

\* resp.text: the body decoded with the declared encoding, or, when the
\* server declared none, with the inferred one.
ResponseText(resp) ==
  [bytes |-> resp.body,
   enc |-> IF resp.encoding = None THEN resp.apparent_encoding ELSE resp.encoding[1]]

FetchIdle ==
  [pc |-> "idle", retries |-> 0, attempt |-> 0, last_err |-> None,
   log |-> <<>>, sleeps |-> <<>>, out |-> [kind |-> "none", text |-> None, err |-> None]]

MutMoreAttempts(attempt, retries) == attempt <= retries

\* `if attempt < retries`: another attempt follows this failed one.
MoreAttempts(attempt, retries) == attempt < retries

MutSleepExponent(attempt) == attempt

\* time.sleep(backoff ** (attempt - 1)): the exponent of the delay.
SleepExponent(attempt) == attempt - 1

\* fetch_html(url, retries=n) is called: the loop `for attempt in range(1, n + 1)`
\* is entered, or, for n < 1, skipped to the final raise RuntimeError.
FetchCall(n) ==
  /\ fetch.pc = "idle"
  /\ fetch' = IF n >= 1
              THEN [FetchIdle EXCEPT !.pc = "loop", !.retries = n, !.attempt = 1]
              ELSE [FetchIdle EXCEPT !.pc = "raised", !.retries = n,
                      !.out = [kind |-> "RuntimeError", text |-> None, err |-> None]]

\* One iteration of the loop body: the try block and its except clause.
FetchAttempt(resp) ==
  /\ fetch.pc = "loop"
  /\ IF resp.kind = "ok"
     THEN fetch' = [fetch EXCEPT !.pc = "returned",
                      !.log = Append(@, resp),
                      !.out = [kind |-> "text", text |-> Some(ResponseText(resp)), err |-> None]]
     ELSE IF MoreAttempts(fetch.attempt, fetch.retries)
     THEN fetch' = [fetch EXCEPT !.last_err = Some(resp.err),
                      !.log = Append(@, resp),
                      !.sleeps = Append(@, SleepExponent(fetch.attempt)),
                      !.attempt = @ + 1]
     ELSE fetch' = [fetch EXCEPT !.pc = "raised",
                      !.last_err = Some(resp.err),
                      !.log = Append(@, resp),
                      !.out = [kind |-> "reraised", text |-> None, err |-> Some(resp.err)]]

\* The caller takes the result; a later call starts afresh (no state is kept
\* between calls: the session is local).
FetchReturn ==
  /\ fetch.pc \in {"returned", "raised"}
  /\ fetch' = FetchIdle

(***************************************************************************)
(* URLs, links and what a fetch gives its caller                           *)
(***************************************************************************)
NumUrls == 4

\* Listing-page URLs.  EmptyUrl is the "" of `url=... if red_url else ""`.
EmptyUrl == 0
Urls == 1..NumUrls

\* The value of an href attribute after .strip(): "" (also a missing or blank
\* attribute), a same-document reference such as "#", or an absolute URL.
Hrefs ==
  [rel : {"empty", "frag"}, url : {EmptyUrl}] \cup [rel : {"abs"}, url : Urls]

\* urljoin(base, href) for a non-empty href: a fragment-only reference
\* resolves to the base itself, an absolute URL to itself.
UrlJoin(base, href) == IF href.rel = "frag" THEN base ELSE href.url

\* soup.select_one("#Content_pager_lblnext > a"): no such anchor, or the
\* anchor with its href.
NoAnchor == [a |-> FALSE, href |-> [rel |-> "empty", url |-> EmptyUrl]]
Pagers == {NoAnchor} \cup [a : {TRUE}, href : Hrefs]

\* fetch_html as its callers see it (SpecFetch is the loop inside): the text,
\* or the exception left after the last retry.
FetchFailed == [ok |-> FALSE, html |-> NoAnchor]
FetchOutcomes(htmls) == [ok : {TRUE}, html : htmls] \cup {FetchFailed}

(***************************************************************************)
(* parse_pagination_links                                                  *)
(***************************************************************************)
MaxCeil == 3
DefaultMaxPages == 100

\* The frame of the generator.  pc: "idle" (no generator), "first" (suspended
\* at the yield of line 271), "next" (suspended at the yield of line 289),
\* "done" (StopIteration), "raised" (the first fetch failed).  `html` holds
\* the pager of the page fetched last; `soup` is always BeautifulSoup(html)
\* where the loop reads it, so the frame keeps html alone.
\* `yielded` (the URLs handed to the consumer, in order) and `stop` (which
\* break ended the loop) are history.
WalkIdle ==
  [pc |-> "idle", base_url |-> EmptyUrl, max_pages |-> 0, pages_fetched |-> 0,
   seen |-> {}, html |-> NoAnchor, abs_url |-> EmptyUrl,
   yielded |-> <<>>, stop |-> "-"]

\* Lines 268-271: the first fetch is outside any try; then the first yield.
WalkFirst(w, base, max, r) ==
  IF r.ok
  THEN [w EXCEPT !.pc = "first", !.base_url = base, !.max_pages = max,
          !.pages_fetched = 1, !.html = r.html,
          !.yielded = <<base>>]
  ELSE [w EXCEPT !.pc = "raised", !.base_url = base, !.max_pages = max]

MutWalkAfterYield(w) ==
  IF w.pc = "first"
  THEN [w EXCEPT !.seen = {w.base_url}]
  ELSE [w EXCEPT !.pages_fetched = @ + 1]

\* The statements after a yield: line 272 after the first, lines 290-292
\* after a later one.
WalkAfterYield(w) ==
  IF w.pc = "first"
  THEN [w EXCEPT !.seen = {w.base_url}]
  ELSE [w EXCEPT !.pages_fetched = @ + 1, !.seen = @ \cup {w.abs_url}]

MutWalkLimit(w, abs_url) == abs_url \in w.seen \/ w.pages_fetched > w.max_pages

\* Line 281: `abs_url in seen or pages_fetched >= max_pages`.
WalkLimit(w, abs_url) == abs_url \in w.seen \/ w.pages_fetched >= w.max_pages

\* soup.select_one("#Content_pager_lblnext > a") on soup = BeautifulSoup(html).
Soup(w) == w.html

MutWalkLoop(w, r) ==
  IF ~Soup(w).a THEN [w EXCEPT !.pc = "done", !.stop = "absent"]
  ELSE IF Soup(w).href.rel = "empty" THEN [w EXCEPT !.pc = "done", !.stop = "empty"]
  ELSE LET abs_url == UrlJoin(w.base_url, Soup(w).href) IN
       IF WalkLimit(w, abs_url)
       THEN [w EXCEPT !.pc = "done", !.stop = "limit", !.abs_url = abs_url]
       ELSE IF ~r.ok
       THEN [w EXCEPT !.pc = "raised", !.stop = "fetchfail", !.abs_url = abs_url]
       ELSE [w EXCEPT !.pc = "next", !.abs_url = abs_url, !.html = r.html,
               !.yielded = Append(@, abs_url)]

\* Lines 274-289: one pass of `while True`, to the next yield or a break.
WalkLoop(w, r) ==
  IF ~Soup(w).a THEN [w EXCEPT !.pc = "done", !.stop = "absent"]
  ELSE IF Soup(w).href.rel = "empty" THEN [w EXCEPT !.pc = "done", !.stop = "empty"]
  ELSE LET abs_url == UrlJoin(w.base_url, Soup(w).href) IN
       IF WalkLimit(w, abs_url)
       THEN [w EXCEPT !.pc = "done", !.stop = "limit", !.abs_url = abs_url]
       ELSE IF ~r.ok
       THEN [w EXCEPT !.pc = "done", !.stop = "fetchfail", !.abs_url = abs_url]
       ELSE [w EXCEPT !.pc = "next", !.abs_url = abs_url, !.html = r.html,
               !.yielded = Append(@, abs_url)]

\* next() on a suspended generator.
WalkResume(w, r) == WalkLoop(WalkAfterYield(w), r)

\* next() on a new generator parse_pagination_links(base, max).
WalkCall(base, max, r) ==
  /\ walk.pc = "idle"
  /\ walk' = WalkFirst(WalkIdle, base, max, r)

WalkNext(r) ==
  /\ walk.pc \in {"first", "next"}
  /\ walk' = WalkResume(walk, r)

\* The generator is dropped; a later call builds a new frame.
WalkClose ==
  /\ walk.pc \in {"done", "raised"}
  /\ walk' = WalkIdle

(***************************************************************************)
(* The records of the program and of the store                             *)
(***************************************************************************)
\* Player(name, url): id starts None.
Player(name, url) == [name |-> name, url |-> url, id |-> None]

\* Event(name, id).
Event(name, id) == [name |-> name, id |-> id]

\* PlayerGame(red_player, black_player, event, url, result): the other fields
\* default to None.
PlayerGame(red, black, event, url, result) ==
  [red_player |-> red, black_player |-> black, event |-> event, url |-> url,
   result |-> result, id |-> None, red_player_id |-> None, black_player_id |-> None,
   event_id |-> None, move_list |-> None, begin_fen |-> None, start_color |-> None]

\* A collection is the sequence of its documents in insertion order.  A new
\* document's _id is an ObjectId no other document of the collection has.
EmptyDb == [players |-> <<>>, events |-> <<>>, games |-> <<>>]
NewObjectId(colname, col) == [col |-> colname, n |-> Len(col) + 1]

\* str(ObjectId).
StrId(oid) == <<"hex", oid.col, oid.n>>

\* The least index of the documents of col that match the filter {key: v}.
Matches(col, key, v) == {i \in 1..Len(col) : col[i][key] = v}
FirstMatch(col, key, v) ==
  CHOOSE i \in Matches(col, key, v) : \A j \in Matches(col, key, v) : i <= j

MutFindOneAndUpdate(colname, col, name, on_insert) ==
  LET doc == [_id |-> NewObjectId(colname, col)] @@ on_insert
  IN [col |-> Append(col, doc), doc |-> doc]

\* col.find_one_and_update({"name": name}, {"$setOnInsert": on_insert},
\* upsert=True, return_document=AFTER): the matching document as it is, or
\* the inserted one.
FindOneAndUpdate(colname, col, name, on_insert) ==
  IF Matches(col, "name", name) # {}
  THEN [col |-> col, doc |-> col[FirstMatch(col, "name", name)]]
  ELSE LET doc == [_id |-> NewObjectId(colname, col)] @@ on_insert
       IN [col |-> Append(col, doc), doc |-> doc]

MutUpdateOne(col, url, set) ==
  LET oid == NewObjectId("games", col)
  IN [col |-> Append(col, [_id |-> oid] @@ set), upserted_id |-> Some(oid)]

\* games_col.update_one({"url": url}, {"$set": set}, upsert=True): the first
\* matching document gets the fields of `set` (which names every field but
\* _id), or a new document is inserted; upserted_id is set only then.
UpdateOne(col, url, set) ==
  IF Matches(col, "url", url) # {}
  THEN LET i == FirstMatch(col, "url", url)
       IN [col |-> [col EXCEPT ![i] = [_id |-> col[i]._id] @@ set],
           upserted_id |-> None]
  ELSE LET oid == NewObjectId("games", col)
       IN [col |-> Append(col, [_id |-> oid] @@ set), upserted_id |-> Some(oid)]

\* games_col.find_one({"url": url}).
FindOne(col, url) ==
  IF Matches(col, "url", url) # {} THEN Some(col[FirstMatch(col, "url", url)]) ELSE None

(***************************************************************************)
(* save_game                                                               *)
(***************************************************************************)
\* The store's environment of a run: pymongo is installed and MONGO_URI is
\* well formed ("ok"), the import fails ("nopymongo"), or MongoClient(uri)
\* rejects the URI ("baduri": lines 125-128 are outside the try).
MongoEnvs == {"ok", "nopymongo", "baduri"}

\* Which store operation of one call raises PyMongoError (server not
\* reachable, write refused): 0 is none; 1..3 the upserts of the red player,
\* the black player and the event; 4 update_one; 5 find_one.  The operation
\* that raises has no effect.
NoFailure == 0
FailPoints == 0..5

\* players.get(name).url if players.get(name) else "".
RegistryUrl(reg, name) == IF name \in DOMAIN reg THEN reg[name].url ELSE EmptyUrl

\* The state save_game reads and writes, and how the call ended: "saved",
\* "nopymongo" (warning, return), "pymongoerror" (warning, return) or
\* "raised" (an exception leaves save_game).
SaveState(game, reg, evs, store, how) ==
  [game |-> game, players |-> reg, events |-> evs, db |-> store, how |-> how]

MutSaveCaught(game, reg, evs, store) == SaveState(game, reg, evs, store, "raised")

\* except PyMongoError: logging.warning(...).
SaveCaught(game, reg, evs, store) == SaveState(game, reg, evs, store, "pymongoerror")

\* Lines 181-189: the in-memory caches, after the writes.
SaveCaches(game, reg, evs, store) ==
  LET reg1 == IF game.red_player \in DOMAIN reg
              THEN [reg EXCEPT ![game.red_player].id = game.red_player_id] ELSE reg
      reg2 == IF game.black_player \in DOMAIN reg1
              THEN [reg1 EXCEPT ![game.black_player].id = game.black_player_id] ELSE reg1
      evs1 == IF game.event \notin DOMAIN evs
              THEN evs @@ (game.event :> Event(game.event, game.event_id)) ELSE evs
  IN SaveState(game, reg2, evs1, store, "saved")

\* Lines 162-179: the upsert of the game by url, and game.id.
SaveGameDoc(game, reg, evs, store, red_doc, black_doc, event_doc, fail) ==
  LET game_doc == [red_player_id |-> red_doc._id, black_player_id |-> black_doc._id,
                   event_id |-> event_doc._id, url |-> game.url, result |-> game.result,
                   move_list |-> game.move_list, begin_fen |-> game.begin_fen,
                   start_color |-> game.start_color]
      res == UpdateOne(store.games, game.url, game_doc)
      store1 == [store EXCEPT !.games = res.col]
  IN IF fail = 4 THEN SaveCaught(game, reg, evs, store)
     ELSE IF res.upserted_id # None
     THEN SaveCaches([game EXCEPT !.id = Some(StrId(res.upserted_id[1]))], reg, evs, store1)
     ELSE IF fail = 5 THEN SaveCaught(game, reg, evs, store1)
     ELSE LET existing == FindOne(store1.games, game.url)
          IN SaveCaches(IF existing # None
                        THEN [game EXCEPT !.id = Some(StrId(existing[1]._id))]
                        ELSE game, reg, evs, store1)

\* Lines 134-160: the three find_one_and_update calls.
SaveUpserts(game, reg, evs, store, fail) ==
  LET red == FindOneAndUpdate("players", store.players, game.red_player,
               [name |-> game.red_player, url |-> RegistryUrl(reg, game.red_player)])
      g1 == [game EXCEPT !.red_player_id = Some(StrId(red.doc._id))]
      s1 == [store EXCEPT !.players = red.col]
      black == FindOneAndUpdate("players", s1.players, game.black_player,
                 [name |-> game.black_player, url |-> RegistryUrl(reg, game.black_player)])
      g2 == [g1 EXCEPT !.black_player_id = Some(StrId(black.doc._id))]
      s2 == [s1 EXCEPT !.players = black.col]
      event == FindOneAndUpdate("events", s2.events, game.event, [name |-> game.event])
      g3 == [g2 EXCEPT !.event_id = Some(StrId(event.doc._id))]
      s3 == [s2 EXCEPT !.events = event.col]
  IN IF fail = 1 THEN SaveCaught(game, reg, evs, store)
     ELSE IF fail = 2 THEN SaveCaught(g1, reg, evs, s1)
     ELSE IF fail = 3 THEN SaveCaught(g2, reg, evs, s2)
     ELSE SaveGameDoc(g3, reg, evs, s3, red.doc, black.doc, event.doc, fail)

\* save_game(game) in the environment env, with the store operation `fail`
\* raising.
SaveGame(game, reg, evs, store, env, fail) ==
  IF env = "nopymongo" THEN SaveState(game, reg, evs, store, "nopymongo")
  ELSE IF env = "baduri" THEN SaveState(game, reg, evs, store, "raised")
  ELSE SaveUpserts(game, reg, evs, store, fail)

(***************************************************************************)
(* parse_game                                                              *)
(***************************************************************************)
\* A string whose characters matter is the sequence of its characters.
RECURSIVE LStrip(_)
LStrip(s) == IF s # <<>> /\ Head(s) = " " THEN LStrip(Tail(s)) ELSE s

RECURSIVE RStrip(_)
RStrip(s) == IF s # <<>> /\ Last(s) = " " THEN RStrip(SubSeq(s, 1, Len(s) - 1)) ELSE s

\* str.strip().
Strip(s) == RStrip(LStrip(s))

RECURSIVE ReplaceChar(_, _, _)
ReplaceChar(s, old, new) ==
  IF s = <<>> THEN <<>>
  ELSE (IF Head(s) = old THEN new ELSE <<Head(s)>>) \o ReplaceChar(Tail(s), old, new)

RECURSIVE Interleave(_, _)
Interleave(s, new) == IF s = <<>> THEN new ELSE new \o <<Head(s)>> \o Interleave(Tail(s), new)

\* str.replace(old, new) for old of at most one character: Python replaces
\* the empty string at every position, the two ends included.
PyReplace(s, old, new) ==
  IF old = <<>> THEN Interleave(s, new) ELSE ReplaceChar(s, old[1], new)

\* The first argument of moves_str.replace("", nonce) as line 213 has it.
PlaceholderMarker == <<>>

\* The sub-document (frame_html) as the four re.search calls see it: group(1)
\* of each pattern, or None when the pattern does not match.  [^'\"]+ makes
\* a matched group non-empty.
FrameDoc(moves, nonce, fen, color) ==
  [strMoveList |-> moves, StartBoard |-> nonce, beginFEN |-> fen, startColor |-> color]

\* What the two fetches and the #game lookup of one enrichment give:
\* detail_ok (fetch_html(abs_game_url) returned), frame_src (the detail page
\* has a #game element with a src), frame_ok (fetch_html(frame_abs_url)
\* returned) and the sub-document.
Enrichment(detail_ok, frame_src, frame_ok, doc) ==
  [detail_ok |-> detail_ok, frame_src |-> frame_src, frame_ok |-> frame_ok, doc |-> doc]

NoDoc == FrameDoc(None, None, None, None)
DetailFetchFails == Enrichment(FALSE, FALSE, FALSE, NoDoc)
NoGameFrame == Enrichment(TRUE, FALSE, FALSE, NoDoc)
FrameFetchFails == Enrichment(TRUE, TRUE, FALSE, NoDoc)
Enriched(doc) == Enrichment(TRUE, TRUE, TRUE, doc)

MutParseFields(game, doc) ==
  IF doc.strMoveList = None THEN [game EXCEPT !.move_list = None]
  ELSE [game EXCEPT !.move_list = Some(Strip(doc.strMoveList[1])),
                    !.begin_fen = doc.beginFEN, !.start_color = doc.startColor]

\* Lines 207-225: the three pattern searches and the fields they set.
ParseFields(game, doc) ==
  LET nonce == IF doc.StartBoard # None THEN doc.StartBoard[1] ELSE <<>>
      g1 == IF doc.strMoveList # None
            THEN [game EXCEPT !.move_list =
                    Some(PyReplace(Strip(doc.strMoveList[1]), PlaceholderMarker, nonce))]
            ELSE [game EXCEPT !.move_list = None]
      g2 == IF doc.beginFEN # None THEN [g1 EXCEPT !.begin_fen = doc.beginFEN] ELSE g1
  IN IF doc.startColor # None THEN [g2 EXCEPT !.start_color = doc.startColor] ELSE g2

\* How the try block of lines 256-260 ends for one stub.
EnrichEnd(e) ==
  IF ~e.detail_ok THEN "detailfail"
  ELSE IF ~e.frame_src THEN "noframe"
  ELSE IF ~e.frame_ok THEN "framefail"
  ELSE "parsed"

MutParseGame(game, e, reg, evs, store, env, fail) ==
  IF EnrichEnd(e) = "parsed"
  THEN SaveGame(ParseFields(game, e.doc), reg, evs, store, env, fail)
  ELSE SaveState(ParseFields(game, FrameDoc(Some(<<"a">>), None, None, None)),
                 reg, evs, store, "-")

MutParseGameNoSave(game, e, reg, evs, store, env, fail) ==
  IF EnrichEnd(e) = "parsed"
  THEN SaveState(ParseFields(game, e.doc), reg, evs, store, "-")
  ELSE SaveState(game, reg, evs, store, "-")

\* fetch_html(abs_game_url) and parse_game(game_html, abs_game_url, game)
\* inside the try of parse_game_links: an exception of either leaves the
\* game as it was ("-": save_game was not reached).
ParseGame(game, e, reg, evs, store, env, fail) ==
  IF EnrichEnd(e) = "parsed"
  THEN SaveGame(ParseFields(game, e.doc), reg, evs, store, env, fail)
  ELSE SaveState(game, reg, evs, store, "-")

(***************************************************************************)
(* parse_game_links                                                        *)
(***************************************************************************)
\* An anchor: its text and its href; None when select_one finds none.
Anchor(text, href) == [text |-> text, href |-> href]
EmptyHref == [rel |-> "empty", url |-> EmptyUrl]
AbsHref(u) == [rel |-> "abs", url |-> u]

\* A div.game: the anchors under div.red, div.black, div.result, div.event.
GameDiv(a_red, a_black, a_result, a_event) ==
  [a_red |-> a_red, a_black |-> a_black, a_result |-> a_result, a_event |-> a_event]

\* Line 241: `a_red and a_black and a_result and a_event`.
WellFormed(c) ==
  c.a_red # None /\ c.a_black # None /\ c.a_result # None /\ c.a_event # None

\* Lines 248-249: the result link has a non-empty href.
MutHasGameUrl(c) == TRUE

HasGameUrl(c) == c.a_result[1].href.rel # "empty"

\* Lines 245-255: the stub of a container that is not skipped.
StubOf(base_url, c) ==
  PlayerGame(c.a_red[1].text, c.a_black[1].text, c.a_event[1].text,
             UrlJoin(base_url, c.a_result[1].href), c.a_result[1].text)

\* The frame of the generator.  pc: "idle", "run" (in the for loop), "yield"
\* (suspended at line 261 with `game`), "done", "raised" (the fetch of line
\* 234 failed).  `rest` is what the for loop has still to visit.  `game` is
\* kept while the generator is suspended on it: the loop never reads the
\* game of an earlier pass.
NoGame == PlayerGame("-", "-", "-", EmptyUrl, "-")
LinksIdle == [pc |-> "idle", base_url |-> EmptyUrl, rest |-> <<>>, game |-> NoGame]

\* The store of a run: as MongoEnvs, or "down" (no server is reachable in
\* the whole run: the first store operation of every call raises).
RunMongoEnvs == MongoEnvs \cup {"down"}

\* In a run whose store is "ok", at most MaxFaults calls meet a transient
\* failure: of the first operation (the server is not reachable) or of the
\* write of the game.
MaxFaults == 1
TransientFails == {1, 4}
FailsAt(reached) ==
  IF ~reached THEN {NoFailure}
  ELSE IF mongo = "down" THEN {1}
  ELSE IF mongo = "ok" /\ hist.faults < MaxFaults THEN {NoFailure} \cup TransientFails
  ELSE {NoFailure}
Fault(fail) == IF mongo = "ok" /\ fail # NoFailure THEN 1 ELSE 0

\* What one step of the run did (history, overwritten by every step): the
\* kind of step, how the enrichment and the save_game call of the step ended,
\* the game's id before and after the step, whether its identity was in
\* `games`.
Ev(kind, enrich, how, id_before, id_after, seen) ==
  [kind |-> kind, enrich |-> enrich, how |-> how, id_before |-> id_before,
   id_after |-> id_after, seen |-> seen]
NoEv == Ev("-", "-", "-", None, None, FALSE)

\* The first next() on parse_game_links(base_url): line 234, outside any try.
LinksFirst(base_url, r) ==
  IF r.ok
  THEN [pc |-> "run", base_url |-> base_url, rest |-> r.html, game |-> NoGame]
  ELSE [LinksIdle EXCEPT !.pc = "raised", !.base_url = base_url]

\* One pass of the for loop of line 236 over the next container: it is
\* skipped, or its stub is enriched (e, fail) and yielded.
LinksNext(e, fail) ==
  /\ links.pc = "run"
  /\ links.rest # <<>>
  /\ LET c == Head(links.rest) IN
     IF ~WellFormed(c) \/ ~HasGameUrl(c)
     THEN /\ links' = [links EXCEPT !.rest = Tail(@)]
          /\ hist' = [hist EXCEPT !.ev = Ev("skip", "-", "-", None, None, FALSE)]
          /\ UNCHANGED <<players, events, db>>
     ELSE LET sv == ParseGame(StubOf(links.base_url, c), e, players, events, db, mongo, fail)
          IN /\ links' = [links EXCEPT !.pc = "yield", !.rest = Tail(@), !.game = sv.game]
             /\ players' = sv.players
             /\ events' = sv.events
             /\ db' = sv.db
             /\ hist' = [hist EXCEPT !.faults = @ + Fault(fail),
                           !.ev = Ev("links", EnrichEnd(e), sv.how, None, sv.game.id, FALSE)]

\* The for loop ends: StopIteration.
LinksEnd ==
  /\ links.pc = "run"
  /\ links.rest = <<>>
  /\ links' = [links EXCEPT !.pc = "done"]

(***************************************************************************)
(* parse_home_page: the traversal driver                                   *)
(***************************************************************************)
\* The frame of parse_home_page.  pc: "start", "seed" (the for loop of line
\* 301 over `rest`), "loop" (the head of `while player_queue`), "page" (a
\* page capture was yielded by the walker), "stubs" (iterating
\* parse_game_links), "done" (returned), "aborted" (an exception left
\* parse_home_page; `cause` says which fetch raised it).
HomeStart == [pc |-> "start", rest |-> <<>>, cause |-> "-"]

\* `fetches` counts the calls of fetch_html for the URL of the page the
\* walker yielded last (by the walker and by parse_game_links).
HistInit ==
  [enq |-> <<>>, pop |-> <<>>, walks |-> <<>>, ev |-> NoEv, faults |-> 0,
   last |-> [u \in {} |-> 0], clean |-> TRUE, over |-> FALSE,
   page |-> <<>>, out |-> <<>>, doc |-> NoDoc, args |-> DefaultMaxPages,
   fetches |-> 0]

MutIsNew(name, reg) == TRUE

\* `name not in players` (lines 311, 315, 336, 340).
IsNew(name, reg) == name \notin DOMAIN reg

MutRegister(s, name, url) ==
  IF IsNew(name, s.players)
  THEN [players |-> (name :> Player(name, url)) @@ s.players,
        queue |-> <<[name |-> name, url |-> url]>> \o s.queue,
        enq |-> Append(s.enq, name)]
  ELSE s

\* `if name not in players: players[name] = Player(...); player_queue.append(...)`
\* on the registry, the queue and the log of appends.  The queue holds the
\* registry's own Player object: an entry is its name and url, and its id is
\* the registry's.
Register(s, name, url) ==
  IF IsNew(name, s.players)
  THEN [players |-> (name :> Player(name, url)) @@ s.players,
        queue |-> Append(s.queue, [name |-> name, url |-> url]),
        enq |-> Append(s.enq, name)]
  ELSE s

\* `urljoin(base_url, red_url) if red_url else ""`.
PlayerUrl(base_url, href) ==
  IF href.rel = "empty" THEN EmptyUrl ELSE UrlJoin(base_url, href)

MutGameSeen(game_id, seen_games) == FALSE

\* `game_id in games` (line 329).
GameSeen(game_id, seen_games) == game_id \in seen_games

\* Line 328.
GameId(g) == <<g.red_player, g.black_player, g.event, g.url>>

\* Line 299: the fetch of the seed page is outside any try.
HomeFetch(base_url, r) ==
  /\ home.pc = "start"
  /\ home' = IF r.ok THEN [home EXCEPT !.pc = "seed", !.rest = r.html]
             ELSE [home EXCEPT !.pc = "aborted", !.cause = "seed"]
  /\ hist' = [hist EXCEPT !.ev = Ev("home", "-", "-", None, None, FALSE)]
  /\ UNCHANGED <<fetch, walk, links, players, games, events, player_queue, db, mongo>>

\* Lines 301-318: one pass of the for loop over the seed page's containers.
HomeEntry(base_url) ==
  /\ home.pc = "seed"
  /\ home.rest # <<>>
  /\ LET c == Head(home.rest)
         s0 == [players |-> players, queue |-> player_queue, enq |-> hist.enq]
         s2 == IF c.a_red = None \/ c.a_black = None THEN s0
               ELSE Register(Register(s0, c.a_red[1].text,
                                      PlayerUrl(base_url, c.a_red[1].href)),
                             c.a_black[1].text, PlayerUrl(base_url, c.a_black[1].href))
     IN /\ players' = s2.players
        /\ player_queue' = s2.queue
        /\ hist' = [hist EXCEPT !.enq = s2.enq, !.ev = Ev("seed", "-", "-", None, None, FALSE)]
  /\ home' = [home EXCEPT !.rest = Tail(@)]
  /\ UNCHANGED <<fetch, walk, links, games, events, db, mongo>>

\* The for loop of line 301 ends; the while loop of line 320 is reached.
HomeSeeded ==
  /\ home.pc = "seed"
  /\ home.rest = <<>>
  /\ home' = [home EXCEPT !.pc = "loop"]
  /\ hist' = [hist EXCEPT !.ev = Ev("seeded", "-", "-", None, None, FALSE)]
  /\ UNCHANGED <<fetch, walk, links, players, games, events, player_queue, db, mongo>>

\* Lines 320-325: pop the next player; with a URL, call the walker (always
\* with its default max_pages) and take its first page, whose fetch is
\* outside any try.
HomePop(r) ==
  /\ home.pc = "loop"
  /\ player_queue # <<>>
  /\ LET player == Head(player_queue) IN
     /\ player_queue' = Tail(player_queue)
     /\ IF player.url = EmptyUrl
        THEN /\ UNCHANGED <<walk, home>>
             /\ hist' = [hist EXCEPT !.pop = Append(@, player.name),
                           !.ev = Ev("pop", "-", "-", None, None, FALSE)]
        ELSE LET w == WalkFirst(WalkIdle, player.url, DefaultMaxPages, r) IN
             /\ walk' = w
             /\ home' = IF w.pc = "raised"
                        THEN [home EXCEPT !.pc = "aborted", !.cause = "walk"]
                        ELSE [home EXCEPT !.pc = "page"]
             /\ hist' = [hist EXCEPT !.pop = Append(@, player.name),
                           !.walks = Append(@, player.name), !.fetches = 1,
                           !.ev = Ev("pop", "-", "-", None, None, FALSE)]
  /\ UNCHANGED <<fetch, links, players, games, events, db, mongo>>

\* Line 320: the queue is empty; parse_home_page returns.
HomeDone ==
  /\ home.pc = "loop"
  /\ player_queue = <<>>
  /\ home' = [home EXCEPT !.pc = "done"]
  /\ hist' = [hist EXCEPT !.ev = Ev("done", "-", "-", None, None, FALSE)]
  /\ UNCHANGED <<fetch, walk, links, players, games, events, player_queue, db, mongo>>

\* Lines 326-327: parse_game_links(page.url) and its first next(), which
\* fetches page.url again, outside any try.
PageLinks(r) ==
  /\ home.pc = "page"
  /\ LET l == LinksFirst(Last(walk.yielded), r) IN
     /\ links' = l
     /\ home' = IF l.pc = "raised"
                THEN [home EXCEPT !.pc = "aborted", !.cause = "links"]
                ELSE [home EXCEPT !.pc = "stubs"]
  /\ hist' = [hist EXCEPT !.fetches = @ + 1,
                !.ev = Ev("page", "-", "-", None, None, FALSE)]
  /\ UNCHANGED <<fetch, walk, players, games, events, player_queue, db, mongo>>

\* next() on the parse_game_links generator: the next container.
StubNext(e, fail) ==
  /\ home.pc = "stubs"
  /\ LinksNext(e, fail)
  /\ UNCHANGED <<fetch, walk, games, player_queue, mongo, home>>

\* Lines 328-346: the body of `for g in games_on_page` for the yielded stub.
StubBody(fail) ==
  /\ home.pc = "stubs"
  /\ links.pc = "yield"
  /\ LET g == links.game
         seen == GameSeen(GameId(g), games)
         sv == IF seen THEN SaveState(g, players, events, db, "-")
               ELSE SaveGame(g, players, events, db, mongo, fail)
         s2 == Register(Register([players |-> sv.players, queue |-> player_queue,
                                   enq |-> hist.enq], g.red_player, EmptyUrl),
                        g.black_player, EmptyUrl)
     IN /\ games' = games \cup {GameId(g)}
        /\ db' = sv.db
        /\ players' = s2.players
        /\ player_queue' = s2.queue
        /\ events' = IF g.event \notin DOMAIN sv.events
                     THEN (g.event :> Event(g.event, None)) @@ sv.events
                     ELSE sv.events
        /\ links' = [links EXCEPT !.pc = "run", !.game = NoGame]
        /\ hist' = [hist EXCEPT !.enq = s2.enq, !.faults = @ + Fault(fail),
                      !.ev = Ev("body", "-", sv.how, g.id, sv.game.id, seen)]
  /\ UNCHANGED <<fetch, walk, mongo, home>>

\* The stubs of the page are exhausted: next() on the walker, which yields
\* the next page or ends this player's walk.
PageEnd(r) ==
  /\ home.pc = "stubs"
  /\ links.pc = "run"
  /\ links.rest = <<>>
  /\ links' = LinksIdle
  /\ LET w == WalkResume(walk, r) IN
     IF w.pc = "done"
     THEN /\ walk' = WalkIdle
          /\ home' = [home EXCEPT !.pc = "loop"]
          /\ hist' = [hist EXCEPT !.fetches = 0,
                        !.ev = Ev("walkend", w.stop, "-", None, None, FALSE)]
     ELSE /\ walk' = w
          /\ home' = [home EXCEPT !.pc = "page"]
          /\ hist' = [hist EXCEPT !.fetches = 1,
                        !.ev = Ev("nextpage", "-", "-", None, None, FALSE)]
  /\ UNCHANGED <<fetch, players, games, events, player_queue, db, mongo>>

(***************************************************************************)
(* The environment: the pages of the site                                  *)
(***************************************************************************)
NoPlayers == [n \in {} |-> Player("-", EmptyUrl)]
NoEvents == [n \in {} |-> Event("-", None)]

\* Detail-page URLs (apart from the listing-page URLs).
GameUrls == {NumUrls + 1, NumUrls + 2}

An(text, u) == Some(Anchor(text, IF u = EmptyUrl THEN EmptyHref ELSE AbsHref(u)))

\* The sub-documents: no assignment at all, a move list alone (with blanks
\* around it), a move list with a board nonce, and all three assignments.
FrameDocs ==
  {NoDoc,
   FrameDoc(Some(<<" ", "a", "b">>), None, None, None),
   FrameDoc(Some(<<"a", "b">>), Some(<<"n">>), None, None),
   FrameDoc(Some(<<"a">>), None, Some("fen1"), Some("r")),
   FrameDoc(None, None, Some("fen1"), None),
   FrameDoc(None, None, None, Some("b"))}

Enrichments(docs) ==
  {DetailFetchFails, NoGameFrame, FrameFetchFails} \cup {Enriched(d) : d \in docs}

(***************************************************************************)
(* SpecFetch: calls of fetch_html                                          *)
(***************************************************************************)
InitRest ==
  /\ walk = WalkIdle
  /\ links = LinksIdle
  /\ players = NoPlayers
  /\ games = {}
  /\ events = NoEvents
  /\ player_queue = <<>>
  /\ db = EmptyDb
  /\ home = HomeStart
  /\ hist = HistInit

InitFetch ==
  /\ fetch = FetchIdle
  /\ mongo = "ok"
  /\ InitRest

fetchOthers == <<walk, links, players, games, events, player_queue, db, mongo, home, hist>>

NextFetch ==
  \/ \E n \in 0..MaxRetries : FetchCall(n) /\ UNCHANGED fetchOthers
  \/ \E resp \in Responses : FetchAttempt(resp) /\ UNCHANGED fetchOthers
  \/ FetchReturn /\ UNCHANGED fetchOthers

SpecFetch == InitFetch /\ [][NextFetch]_vars

\* C1: a call with retries = n >= 1 makes at most n attempts and none after a
\* success; it is still in the loop only while fewer than n attempts have
\* all failed; when it raises, it has made exactly n attempts, all failed,
\* and the error raised is the failure of the last one; when it returns, the
\* value is the decoded text of the one successful attempt, which is the last.
C1_FetchRetries ==
  LET n == Len(fetch.log)
      failed(i) == fetch.log[i].kind = "err"
  IN /\ fetch.retries >= 1 => n <= fetch.retries
     /\ \A i \in 1..n : ~failed(i) => i = n /\ fetch.pc = "returned"
     /\ fetch.pc = "loop" => n < fetch.retries /\ fetch.attempt = n + 1
     /\ (fetch.pc = "raised" /\ fetch.retries >= 1) =>
          /\ n = fetch.retries
          /\ \A i \in 1..n : failed(i)
          /\ fetch.out = [kind |-> "reraised", text |-> None,
                          err |-> Some(fetch.log[n].err)]
     /\ fetch.pc = "returned" =>
          /\ n >= 1 /\ ~failed(n)
          /\ fetch.out = [kind |-> "text", text |-> Some(ResponseText(fetch.log[n])),
                          err |-> None]

\* C1's case: three attempts of three failed, the last with another error
\* than the first, and the call raised.
C1_Witness ==
  /\ fetch.pc = "raised"
  /\ fetch.retries = 3
  /\ Len(fetch.log) = 3
  /\ fetch.log[1].err # fetch.log[3].err
  /\ fetch.out.err = Some(fetch.log[3].err)

(***************************************************************************)
(* SpecWalk: walks of parse_pagination_links, one after the other          *)
(***************************************************************************)
MaxPagesInputs == ((-1)..MaxCeil) \cup {DefaultMaxPages}

walkOthers == <<fetch, links, players, games, events, player_queue, db, mongo, home, hist>>

NextWalk ==
  \/ \E base \in Urls, max \in MaxPagesInputs, r \in FetchOutcomes(Pagers) :
       WalkCall(base, max, r) /\ UNCHANGED walkOthers
  \/ \E r \in FetchOutcomes(Pagers) : WalkNext(r) /\ UNCHANGED walkOthers
  \/ WalkClose /\ UNCHANGED walkOthers

SpecWalk == InitFetch /\ [][NextWalk]_vars

\* The URLs of the pages a walk has yielded, and the next link of the page
\* it is suspended on.
Visited(w) == {w.yielded[i] : i \in 1..Len(w.yielded)}
NoRepeat(s) == \A i, j \in 1..Len(s) : i # j => s[i] # s[j]
PagerOfPage(w) == w.html
Suspended(w) == w.pc \in {"first", "next"}
NextLinkEnds(w) ==
  \/ ~PagerOfPage(w).a
  \/ PagerOfPage(w).href.rel = "empty"
  \/ UrlJoin(w.base_url, PagerOfPage(w).href) \in Visited(w)

\* C2: a walk never yields a URL twice, and when the next link of the page
\* last yielded is absent, empty or resolves to a URL already yielded, the
\* next step ends the walk with no further page.
C2_WalkNoRepeat ==
  [][/\ NoRepeat(walk'.yielded)
     /\ (Suspended(walk) /\ NextLinkEnds(walk)) =>
          walk'.pc = "done" /\ walk'.yielded = walk.yielded]_vars

\* C2's case: three pages were yielded, the third's next link resolved to
\* the first page's URL, and the walk ended there under a ceiling of 100.
C2_Witness ==
  /\ walk.pc = "done"
  /\ walk.max_pages = DefaultMaxPages
  /\ Len(walk.yielded) = 3
  /\ walk.stop = "limit"
  /\ walk.abs_url = walk.yielded[1]
  /\ walk.html = [a |-> TRUE, href |-> AbsHref(walk.yielded[1])]

\* C3 as stated: at most max_pages pages, for every max_pages.
C3_AtMostMaxPages == Len(walk.yielded) <= walk.max_pages

\* C3, amended: a walk yields at most max_pages pages when max_pages >= 1
\* and at most the starting page when max_pages < 1; with max_pages = 2 a
\* walk that ends on a valid next link to a page not yet yielded has yielded
\* exactly 2 pages.
C3_AtMostMaxPagesFromOne ==
  /\ walk.max_pages >= 1 => Len(walk.yielded) <= walk.max_pages
  /\ walk.max_pages < 1 => Len(walk.yielded) <= 1
  /\ (walk.pc = "done" /\ walk.max_pages = 2 /\ walk.stop = "limit"
      /\ walk.abs_url \notin Visited(walk)) => Len(walk.yielded) = 2

\* C3's case: the ceiling of 2 stopped a walk whose second page links to a
\* third, distinct page.
C3_Witness ==
  /\ walk.pc = "done"
  /\ walk.max_pages = 2
  /\ walk.stop = "limit"
  /\ walk.abs_url \notin Visited(walk)
  /\ Len(walk.yielded) = 2

(***************************************************************************)
(* SpecStore: calls of save_game, one after the other                      *)
(***************************************************************************)
\* The games passed to save_game: a bare stub with one result, an enriched
\* one with the other, for either colour assignment of two players.
StorePairs == {<<"A", "B">>, <<"B", "A">>}
StoreEvents == {"E1"}
BareStub(r, b, e, u) == PlayerGame(r, b, e, u, "1-0")
FullStub(r, b, e, u) ==
  ParseFields(PlayerGame(r, b, e, u, "0-1"),
              FrameDoc(Some(<<"a">>), None, Some("fen1"), Some("r")))
StoreGames ==
  {BareStub(p[1], p[2], e, u) : p \in StorePairs, e \in StoreEvents, u \in GameUrls}
  \cup {FullStub(p[1], p[2], e, u) : p \in StorePairs, e \in StoreEvents, u \in GameUrls}

\* The registries save_game may find: empty, or players known from a page.
StoreRegistries ==
  {NoPlayers, ("A" :> Player("A", 1)) @@ ("B" :> Player("B", EmptyUrl))}

InitStore ==
  /\ fetch = FetchIdle
  /\ walk = WalkIdle
  /\ links = LinksIdle
  /\ players \in StoreRegistries
  /\ games = {}
  /\ events = NoEvents
  /\ player_queue = <<>>
  /\ db = EmptyDb
  /\ mongo \in MongoEnvs
  /\ home = HomeStart
  /\ hist = HistInit

\* The fields of a game that update_one's $set writes from the call.
Written(g) ==
  [result |-> g.result, move_list |-> g.move_list, begin_fen |-> g.begin_fen,
   start_color |-> g.start_color]

\* save_game(g) is called and ends.  History: whether every call so far found
\* the store available and ended "saved" (clean); while that is so, the
\* fields of the most recent call for each url (last); and whether this call
\* changed result and move_list of a url saved before (over).
SaveCall(g, fail) ==
  LET sv == SaveGame(g, players, events, db, mongo, fail) IN
  /\ players' = sv.players
  /\ events' = sv.events
  /\ db' = sv.db
  /\ hist' = [hist EXCEPT !.last = IF hist.clean /\ sv.how = "saved"
                                  THEN (g.url :> Written(g)) @@ @
                                  ELSE HistInit.last,
                !.clean = @ /\ sv.how = "saved",
                !.over = /\ g.url \in DOMAIN hist.last
                         /\ hist.last[g.url].result # g.result
                         /\ hist.last[g.url].move_list # g.move_list,
                !.ev = Ev("save", "-", sv.how, g.id, sv.game.id, FALSE)]
  /\ UNCHANGED <<fetch, walk, links, games, player_queue, mongo, home>>

NextStore == \E g \in StoreGames, fail \in FailPoints : SaveCall(g, fail)

SpecStore == InitStore /\ [][NextStore]_vars

\* C4: the games collection never holds two documents with one url; and as
\* long as every save_game call found the store available and completed, the
\* document of each url saved holds the result, move_list, begin_fen and
\* start_color of the most recent call for that url.
C4_OneGamePerUrl ==
  /\ \A u \in GameUrls : Cardinality(Matches(db.games, "url", u)) <= 1
  /\ hist.clean =>
       \A u \in DOMAIN hist.last :
         /\ Matches(db.games, "url", u) # {}
         /\ Written(db.games[FirstMatch(db.games, "url", u)]) = hist.last[u]

\* C4's case: a completed call for a url saved before, with another result
\* and another move_list, and one document in the collection.
C4_Witness ==
  /\ hist.clean
  /\ hist.over
  /\ Len(db.games) = 1
  /\ db.games[1].move_list # None

(***************************************************************************)
(* SpecParse: parse_game_links on one listing page after the other         *)
(***************************************************************************)
MaxDivs == 2

\* The containers of a listing page: two well-formed ones, one without each
\* of the four links, and one whose result link has no href.
ParseDivs ==
  {GameDiv(An("A", 1), An("B", 2), An("1-0", NumUrls + 1), An("E1", EmptyUrl)),
   GameDiv(An("B", 2), An("C", EmptyUrl), An("0-1", NumUrls + 2), An("E2", EmptyUrl)),
   GameDiv(None, An("B", 2), An("1-0", NumUrls + 1), An("E1", EmptyUrl)),
   GameDiv(An("A", 1), None, An("1-0", NumUrls + 1), An("E1", EmptyUrl)),
   GameDiv(An("A", 1), An("B", 2), None, An("E1", EmptyUrl)),
   GameDiv(An("A", 1), An("B", 2), An("1-0", NumUrls + 1), None),
   GameDiv(An("A", 1), An("B", 2), An("1-0", EmptyUrl), An("E1", EmptyUrl))}

ParsePages == SeqsUpTo(ParseDivs, MaxDivs)
ParseEnrichments ==
  Enrichments({FrameDoc(Some(<<"a">>), None, Some("fen1"), Some("r"))})

InitParse ==
  /\ fetch = FetchIdle
  /\ walk = WalkIdle
  /\ links = LinksIdle
  /\ players = NoPlayers
  /\ games = {}
  /\ events = NoEvents
  /\ player_queue = <<>>
  /\ db = EmptyDb
  /\ mongo \in RunMongoEnvs
  /\ home = HomeStart
  /\ hist = HistInit

\* list(parse_game_links(base_url)): the call and its first fetch.
ParseCall(base_url, r) ==
  /\ links.pc = "idle"
  /\ links' = LinksFirst(base_url, r)
  /\ hist' = [hist EXCEPT !.page = r.html, !.out = <<>>,
                !.ev = Ev("page", "-", "-", None, None, FALSE)]
  /\ UNCHANGED <<fetch, walk, players, games, events, player_queue, db, mongo, home>>

ParseNext(e, fail) ==
  /\ LinksNext(e, fail)
  /\ UNCHANGED <<fetch, walk, games, player_queue, mongo, home>>

\* The consumer takes the yielded stub and asks for the next.
ParseTake ==
  /\ links.pc = "yield"
  /\ links' = [links EXCEPT !.pc = "run", !.game = NoGame]
  /\ hist' = [hist EXCEPT !.out = Append(@, links.game),
                !.ev = Ev("take", "-", "-", None, None, FALSE)]
  /\ UNCHANGED <<fetch, walk, players, games, events, player_queue, db, mongo, home>>

ParseEnd ==
  /\ LinksEnd
  /\ UNCHANGED <<fetch, walk, players, games, events, player_queue, db, mongo, home, hist>>

ParseClose ==
  /\ links.pc \in {"done", "raised"}
  /\ links' = LinksIdle
  /\ hist' = [hist EXCEPT !.page = <<>>, !.out = <<>>, !.ev = NoEv]
  /\ UNCHANGED <<fetch, walk, players, games, events, player_queue, db, mongo, home>>

NextParse ==
  \/ \E u \in {1, 2}, r \in FetchOutcomes(ParsePages) : ParseCall(u, r)
  \/ \E e \in ParseEnrichments :
       \E fail \in FailsAt(EnrichEnd(e) = "parsed") : ParseNext(e, fail)
  \/ ParseTake
  \/ ParseEnd
  \/ ParseClose

SpecParse == InitParse /\ [][NextParse]_vars

\* The fields a stub takes from its container, and what the containers
\* visited so far should have given.
Base(g) == <<g.red_player, g.black_player, g.event, g.url, g.result>>
AllFour(c) == c.a_red # None /\ c.a_black # None /\ c.a_result # None /\ c.a_event # None
AllFourWithHref(c) == AllFour(c) /\ c.a_result[1].href.rel = "abs"
BaseOfDiv(c) ==
  <<c.a_red[1].text, c.a_black[1].text, c.a_event[1].text, c.a_result[1].href.url,
    c.a_result[1].text>>
Visit == SubSeq(hist.page, 1, Len(hist.page) - Len(links.rest))
Stubs == IF links.pc = "yield" THEN Append(hist.out, links.game) ELSE hist.out

\* C10 as stated: the stubs yielded are those of the containers with all
\* four links, in page order.
C10_StubPerFourLinks ==
  links.pc \in {"run", "yield", "done"} =>
    [i \in 1..Len(Stubs) |-> Base(Stubs[i])]
      = [i \in 1..Len(SelectSeq(Visit, AllFour)) |-> BaseOfDiv(SelectSeq(Visit, AllFour)[i])]

\* C10, amended: the stubs yielded so far are, in page order, those of the
\* containers visited that have all four links and a non-empty href on the
\* result link; every other container is passed over.
C10_StubPerFourLinksWithHref ==
  links.pc \in {"run", "yield", "done"} =>
    [i \in 1..Len(Stubs) |-> Base(Stubs[i])]
      = [i \in 1..Len(SelectSeq(Visit, AllFourWithHref)) |->
           BaseOfDiv(SelectSeq(Visit, AllFourWithHref)[i])]

\* C10's case: a page of a container without event link followed by a
\* well-formed one was parsed to its end and gave one stub.
C10_Witness ==
  /\ links.pc = "done"
  /\ Len(hist.page) = 2
  /\ AllFour([hist.page[1] EXCEPT !.a_event = Some(Anchor("E1", EmptyHref))])
  /\ hist.page[1].a_event = None
  /\ AllFourWithHref(hist.page[2])
  /\ Len(hist.out) = 1
  /\ Base(hist.out[1]) = BaseOfDiv(hist.page[2])

(***************************************************************************)
(* Spec: one run of parse_home_page                                        *)
(***************************************************************************)
NumSiteUrls == 2
MaxSiteDivs == 2

\* The listing pages of the site and the URL of the seed page.
SiteUrls == 1..NumSiteUrls
SeedUrl == NumUrls + 3

\* The containers of the site's pages: players A and B with listing pages,
\* C without; a game of A and B, a game of A and C, and a container without
\* event link (which names A without a link target).
SiteDivs ==
  {GameDiv(An("A", 1), An("B", 2), An("1-0", NumUrls + 1), An("E1", EmptyUrl)),
   GameDiv(An("A", 1), An("C", EmptyUrl), An("0-1", NumUrls + 2), An("E1", EmptyUrl)),
   GameDiv(An("B", 2), An("A", EmptyUrl), An("1-0", NumUrls + 1), None)}

SitePages == SeqsUpTo(SiteDivs, MaxSiteDivs)
SitePagers ==
  {NoAnchor} \cup [a : {TRUE}, href : {EmptyHref} \cup {AbsHref(u) : u \in SiteUrls}]
SiteEnrichments ==
  Enrichments({FrameDoc(Some(<<"a">>), None, Some("fen1"), Some("r"))})

Init ==
  /\ fetch = FetchIdle
  /\ walk = WalkIdle
  /\ links = LinksIdle
  /\ players = NoPlayers
  /\ games = {}
  /\ events = NoEvents
  /\ player_queue = <<>>
  /\ db = EmptyDb
  /\ mongo \in RunMongoEnvs
  /\ home = HomeStart
  /\ hist = HistInit

Next ==
  \/ \E r \in FetchOutcomes(SitePages) : HomeFetch(SeedUrl, r)
  \/ HomeEntry(SeedUrl)
  \/ HomeSeeded
  \/ \E r \in FetchOutcomes(SitePagers) : HomePop(r)
  \/ HomeDone
  \/ \E r \in FetchOutcomes(SitePages) : PageLinks(r)
  \/ \E e \in SiteEnrichments :
       \E fail \in FailsAt(EnrichEnd(e) = "parsed") : StubNext(e, fail)
  \/ \E fail \in FailsAt(~GameSeen(GameId(links.game), games)) : StubBody(fail)
  \/ \E r \in FetchOutcomes(SitePagers) : PageEnd(r)

Spec == Init /\ [][Next]_vars

Range(s) == {s[i] : i \in 1..Len(s)}

\* C5: in one run each player name is appended to the discovery queue at
\* most once and popped at most once; every player in the queue is in the
\* registry; and when the run has ended with an empty queue every registered
\* player has been popped.
C5_QueuedAndPoppedOnce ==
  /\ NoRepeat(hist.enq)
  /\ NoRepeat(hist.pop)
  /\ \A i \in 1..Len(player_queue) : player_queue[i].name \in DOMAIN players
  /\ (home.pc \in {"done", "aborted"} /\ player_queue = <<>>)
       => DOMAIN players \subseteq Range(hist.pop)

\* A run that returned after three players were popped, A among them, named
\* by the seed page and by the stubs of two games.
C5_Witness ==
  /\ home.pc = "done"
  /\ player_queue = <<>>
  /\ Len(hist.pop) = 3
  /\ Cardinality(games) = 2
  /\ hist.walks # <<>>

\* C6: an identity the driver has processed stays in the dedup set; when a
\* stub with an identity already in the set is processed, the driver calls
\* save_game for no game (the store is untouched) and the registry, the
\* events and the queue stay as they are.
C6_SeenStubIsNotSavedAgain ==
  [][/\ games \subseteq games'
     /\ (home.pc = "stubs" /\ links.pc = "yield" /\ links'.pc = "run") =>
          /\ GameId(links.game) \in games'
          /\ GameId(links.game) \in games =>
               /\ hist'.ev.how = "-"
               /\ db' = db
               /\ players' = players
               /\ events' = events
               /\ player_queue' = player_queue]_vars

\* The body has just passed over a stub whose identity was in the set, in a
\* run that saved a game.
C6_Witness ==
  /\ hist.ev.kind = "body"
  /\ hist.ev.seen
  /\ db.games # <<>>
  /\ Cardinality(games) = 1

\* C7: a pagination anomaly in one player's walk (a fetch failure of one of
\* the player's listing pages included) ends only that walk: after the seed
\* page, the run ends only when every queued player has been popped.
C7_AnomalyEndsOnlyThatWalk ==
  (home.pc \in {"done", "aborted"} /\ home.cause # "seed") => player_queue = <<>>

C9_EnrichmentFailureKeepsStub ==
  [][/\ (home.pc = "stubs" /\ links.pc = "run" /\ links'.pc = "yield"
           /\ hist'.ev.enrich # "parsed") =>
          /\ links'.game = StubOf(links.base_url, Head(links.rest))
          /\ links'.game.move_list = None
          /\ links'.game.begin_fen = None
          /\ links'.game.start_color = None
          /\ links'.rest = Tail(links.rest)
          /\ db' = db
     /\ (home.pc = "stubs" /\ links.pc = "yield" /\ links'.pc = "run"
           /\ GameId(links.game) \notin games) =>
          /\ hist'.ev.how # "-"
          /\ (mongo = "ok" /\ hist'.faults = hist.faults) =>
               \E i \in 1..Len(db'.games) :
                 /\ db'.games[i].url = links.game.url
                 /\ db'.games[i].result = links.game.result
                 /\ db'.games[i].move_list = links.game.move_list
                 /\ db'.games[i].begin_fen = links.game.begin_fen
                 /\ db'.games[i].start_color = links.game.start_color]_vars

\* The driver has just saved a stub whose enrichment failed: the store's
\* only game has no move list, and a container of the page is still to come.
C9_Witness ==
  /\ hist.ev.kind = "body"
  /\ ~hist.ev.seen
  /\ hist.ev.how = "saved"
  /\ Len(db.games) = 1
  /\ db.games[1].move_list = None
  /\ db.games[1].begin_fen = None
  /\ links.rest # <<>>

(***************************************************************************)
(* SpecEnrich: the enrichment of one stub after the other                  *)
(***************************************************************************)
MaxParses == 2

\* The sub-documents: every combination of a move list (absent, plain, with
\* blanks around it, blanks alone), a board nonce, a start position and a
\* start side.
EnrichDocs ==
  {FrameDoc(m, n, f, c) :
     m \in {None, Some(<<"a", "b">>), Some(<<" ", "a", " ">>), Some(<<" ">>)},
     n \in {None, Some(<<"n">>)}, f \in {None, Some("fen1")}, c \in {None, Some("r")}}

EnrichDivs ==
  {GameDiv(An("A", 1), An("B", 2), An("1-0", NumUrls + 1), An("E1", EmptyUrl)),
   GameDiv(An("A", 1), An("C", EmptyUrl), An("0-1", NumUrls + 2), An("E1", EmptyUrl))}

\* Lines 255-261 for one container: the stub, its enrichment, the yield.
EnrichCall(c, e, fail) ==
  /\ links.pc = "idle"
  /\ Len(hist.out) < MaxParses
  /\ LET sv == ParseGame(StubOf(1, c), e, players, events, db, mongo, fail) IN
     /\ links' = [links EXCEPT !.pc = "yield", !.base_url = 1, !.game = sv.game]
     /\ players' = sv.players
     /\ events' = sv.events
     /\ db' = sv.db
     /\ hist' = [hist EXCEPT !.faults = @ + Fault(fail), !.doc = e.doc,
                   !.ev = Ev("links", EnrichEnd(e), sv.how, None, sv.game.id, FALSE)]
  /\ UNCHANGED <<fetch, walk, games, player_queue, mongo, home>>

\* The consumer drops the stub.
EnrichTake ==
  /\ links.pc = "yield"
  /\ links' = LinksIdle
  /\ hist' = [hist EXCEPT !.out = Append(@, NoGame), !.doc = NoDoc, !.ev = NoEv]
  /\ UNCHANGED <<fetch, walk, players, games, events, player_queue, db, mongo, home>>

NextEnrich ==
  \/ \E c \in EnrichDivs, e \in Enrichments(EnrichDocs) :
       \E fail \in FailsAt(EnrichEnd(e) = "parsed") : EnrichCall(c, e, fail)
  \/ EnrichTake

SpecEnrich == InitParse /\ [][NextEnrich]_vars

\* The records of a game's url in the store.
Stored(url) == {db.games[i] : i \in Matches(db.games, "url", url)}

\* C11: after parse_game has read a sub-document, each of move_list,
\* begin_fen and start_color of the game is set exactly when its own pattern
\* matched (begin_fen and start_color to the matched text), whatever the
\* other two did; save_game was called, and with the store available and no
\* failure in the call the record of the game's url holds these fields.
C11_FieldsIndependent ==
  (links.pc = "yield" /\ hist.ev.enrich = "parsed") =>
    /\ (links.game.move_list # None) <=> (hist.doc.strMoveList # None)
    /\ links.game.begin_fen = hist.doc.beginFEN
    /\ links.game.start_color = hist.doc.startColor
    /\ hist.ev.how # "-"
    /\ (mongo = "ok" /\ hist.ev.how # "pymongoerror") =>
         /\ hist.ev.how = "saved"
         /\ \E d \in Stored(links.game.url) :
              /\ d.move_list = links.game.move_list
              /\ d.begin_fen = links.game.begin_fen
              /\ d.start_color = links.game.start_color

\* A sub-document with a move list alone was parsed and saved.
C11_Witness ==
  /\ links.pc = "yield"
  /\ hist.ev.how = "saved"
  /\ hist.doc = FrameDoc(Some(<<"a", "b">>), None, None, None)
  /\ links.game.move_list = Some(<<"a", "b">>)
  /\ links.game.begin_fen = None
  /\ links.game.start_color = None
  /\ Stored(links.game.url) # {}

(***************************************************************************)
(* SpecMain: main, with its --max-pages argument                          *)
(***************************************************************************)
\* args.max_pages as argparse gives it (line 353; its default is 100).
MainArgs == {1, 2, DefaultMaxPages}

\* main() up to the call parse_home_page(args.url) of line 355: hist.args
\* keeps args.max_pages.  The store plays no part in the ceiling of a walk:
\* these are the runs on a machine without the store driver.
InitMain ==
  /\ fetch = FetchIdle
  /\ walk = WalkIdle
  /\ links = LinksIdle
  /\ players = NoPlayers
  /\ games = {}
  /\ events = NoEvents
  /\ player_queue = <<>>
  /\ db = EmptyDb
  /\ mongo = "nopymongo"
  /\ home = HomeStart
  /\ \E a \in MainArgs : hist = [HistInit EXCEPT !.args = a]

SpecMain == InitMain /\ [][Next]_vars

\* C12: the ceiling of every pagination walk of a run is the --max-pages
\* value the run was given, so no walk yields more pages than that.
C12_WalkCeilingIsInput ==
  walk.pc # "idle" =>
    /\ walk.max_pages = hist.args
    /\ Len(walk.yielded) <= hist.args

(***************************************************************************)
(* Claims on the players and events collections (SpecStore)                *)
(***************************************************************************)
Names(col) == [i \in 1..Len(col) |-> col[i].name]
KeepsDocs(old, new) == Len(old) <= Len(new) /\ SubSeq(new, 1, Len(old)) = old

\* C13: a save_game call leaves every stored player and event record as it
\* was (it only appends records of names not stored yet), so neither
\* collection ever holds two records of one name; and the id a completed
\* call resolves for a registered player is that of the player's stored
\* record, the same as any earlier call resolved.
C13_InsertIfAbsent ==
  [][/\ KeepsDocs(db.players, db'.players)
     /\ KeepsDocs(db.events, db'.events)
     /\ NoRepeat(Names(db'.players))
     /\ NoRepeat(Names(db'.events))
     /\ \A n \in DOMAIN players' :
          /\ (players[n].id # None /\ players'[n].id # None) => players'[n].id = players[n].id
          /\ players'[n].id # None =>
               \E i \in Matches(db'.players, "name", n) :
                 players'[n].id = Some(StrId(db'.players[i]._id))
     /\ \A n \in DOMAIN events' :
          \E i \in Matches(db'.events, "name", n) :
            events'[n].id = Some(StrId(db'.events[i]._id))]_vars

\* A second game of two stored players in a stored event was saved: two
\* games, two players, one event, and the registry holds the players' ids.
C13_Witness ==
  /\ hist.ev.how = "saved"
  /\ Len(db.games) = 2
  /\ Len(db.players) = 2
  /\ Len(db.events) = 1
  /\ "A" \in DOMAIN players
  /\ players["A"].id # None

(***************************************************************************)
(* Claims on the order of a walk (SpecWalk)                                *)
(***************************************************************************)
\* C14: a walk yields its starting URL first and after it only the URL its
\* last page's next link resolves to, appended to what it yielded before; a
\* walk that has yielded a page never raises: when a later fetch fails it
\* ends with the pages yielded so far; and a new walk starts with an empty
\* visited set and, its first fetch done, with the starting page alone.
C14_WalkOrder ==
  [][/\ walk'.yielded # <<>> => walk'.yielded[1] = walk'.base_url
     /\ Suspended(walk) =>
          /\ walk'.pc \in {"next", "done"}
          /\ walk'.pc = "next" =>
               /\ PagerOfPage(walk).a
               /\ walk'.yielded =
                    Append(walk.yielded, UrlJoin(walk.base_url, PagerOfPage(walk).href))
          /\ walk'.pc = "done" => walk'.yielded = walk.yielded
     /\ (walk.pc = "idle" /\ walk'.pc # "idle") =>
          /\ walk'.seen = {}
          /\ walk'.pc = "first" => walk'.yielded = <<walk'.base_url>>
          /\ walk'.pc = "raised" => walk'.yielded = <<>>]_vars

\* The fetch of a third page failed: the walk ended with the two pages it
\* had yielded, in the order of the links.
C14_Witness ==
  /\ walk.pc = "done"
  /\ walk.stop = "fetchfail"
  /\ Len(walk.yielded) = 2
  /\ walk.yielded[1] = walk.base_url
  /\ walk.abs_url \notin Visited(walk)

(***************************************************************************)
(* Claims on the order of the queue (Spec)                                 *)
(***************************************************************************)
\* The names of an entry (red, then black) that are not in `known`, each
\* once.
NewNames(red, black, known) ==
  (IF red \in known THEN <<>> ELSE <<red>>)
    \o (IF black \in known \cup {red} THEN <<>> ELSE <<black>>)

\* C15: the players popped so far, followed by those still queued, are the
\* players enqueued, in the order they were enqueued; and that order is the
\* seed page's entries in page order, red before black, followed by the
\* stubs in the order the driver processes them, each name at its first
\* appearance.
C15_QueueIsFifo ==
  /\ [](hist.pop \o Names(player_queue) = hist.enq)
  /\ [][/\ (home.pc = "seed" /\ home.rest # <<>> /\ Head(home.rest).a_red # None
              /\ Head(home.rest).a_black # None) =>
             hist'.enq = hist.enq \o NewNames(Head(home.rest).a_red[1].text,
                                              Head(home.rest).a_black[1].text,
                                              Range(hist.enq))
        /\ (home.pc = "stubs" /\ links.pc = "yield") =>
             hist'.enq = hist.enq \o NewNames(links.game.red_player,
                                              links.game.black_player, Range(hist.enq))
        /\ (home.pc = "loop" /\ player_queue # <<>>) =>
             /\ hist'.pop = Append(hist.pop, Head(player_queue).name)
             /\ hist'.enq = hist.enq]_vars

\* A run that returned after popping B and A, named by the seed page in this
\* order, and then C, first seen in a stub of B's listing page.
C15_Witness ==
  /\ home.pc = "done"
  /\ hist.pop = <<"B", "A", "C">>
  /\ hist.walks = <<"B">>
  /\ Cardinality(games) = 1

(***************************************************************************)
(* Claims on the delays of fetch_html (SpecFetch)                          *)
(***************************************************************************)
\* C16: a call sleeps once after each failed attempt that another attempt
\* follows and at no other time: while in the loop it has slept once per
\* attempt made; when it has returned or raised after a >= 1 attempts it has
\* slept a - 1 times; and the i-th sleep, after failed attempt i, has
\* exponent i - 1.
C16_SleepsBetweenAttempts ==
  LET a == Len(fetch.log) IN
  /\ fetch.pc = "loop" => Len(fetch.sleeps) = a
  /\ (fetch.pc \in {"returned", "raised"} /\ a >= 1) => Len(fetch.sleeps) = a - 1
  /\ a = 0 => fetch.sleeps = <<>>
  /\ \A i \in 1..Len(fetch.sleeps) :
       /\ fetch.sleeps[i] = i - 1
       /\ fetch.log[i].kind = "err"

\* A call ended with its third attempt, a success or the last failure,
\* after two sleeps of exponents 0 and 1.
C16_Witness ==
  /\ fetch.pc \in {"returned", "raised"}
  /\ Len(fetch.log) = 3
  /\ fetch.sleeps = <<0, 1>>

(***************************************************************************)
(* Claims on the move list (SpecEnrich)                                    *)
(***************************************************************************)
\* s holds the marker m; an empty m marks nothing.
Contains(s, m) ==
  m # <<>> /\ \E i \in 1..(Len(s) - Len(m) + 1) : SubSeq(s, i, i + Len(m) - 1) = m

\* C17: when the sub-document has a move list, the move_list of the game is
\* the trimmed move string with every placeholder marker replaced by the
\* nonce; with no nonce, or no placeholder marker in the string, it is the
\* trimmed string itself.
C17_NonceReplacesMarker ==
  (links.pc = "yield" /\ hist.ev.enrich = "parsed" /\ hist.doc.strMoveList # None) =>
    LET moves_str == Strip(hist.doc.strMoveList[1]) IN
    /\ (hist.doc.StartBoard = None \/ ~Contains(moves_str, PlaceholderMarker)) =>
         links.game.move_list = Some(moves_str)
    /\ Len(SelectSeq(links.game.move_list[1], LAMBDA ch : ch \in Range(moves_str)))
         = Len(moves_str)

(***************************************************************************)
(* Claims on the fetches of a listing page (Spec)                          *)
(***************************************************************************)
\* C18: the stubs of a page capture are taken from the capture's html: the
\* URL of the page the walker yielded is fetched once, by the walker, and
\* parsing its stubs cannot fail on a fetch.
C18_PageFetchedOnce ==
  /\ hist.fetches <= 1
  /\ home.cause # "links"

(***************************************************************************)
(* Claims on the number of save_game calls (Spec)                          *)
(***************************************************************************)
Calls(ev) == IF ev.how = "-" THEN 0 ELSE 1

\* C19: the step that yields a stub calls save_game exactly when its
\* enrichment reached the sub-document, whether or not the identity is in the
\* dedup set (with the store available and no failure, the game's url is
\* then stored before the driver sees the stub); the driver's body calls
\* save_game exactly when the identity is new; so one appearance of a stub
\* makes at most two calls when its identity is new and at most one when not.
C19_SavesPerStub ==
  [][/\ (home.pc = "stubs" /\ links.pc = "run" /\ links'.pc = "yield") =>
          /\ (hist'.ev.how # "-") <=> (hist'.ev.enrich = "parsed")
          /\ (hist'.ev.enrich = "parsed" /\ mongo = "ok" /\ hist'.faults = hist.faults) =>
               Matches(db'.games, "url", links'.game.url) # {}
     /\ (home.pc = "stubs" /\ links.pc = "yield" /\ links'.pc = "run") =>
          /\ (hist'.ev.how # "-") <=> (GameId(links.game) \notin games)
          /\ Calls(hist.ev) + Calls(hist'.ev)
               <= (IF GameId(links.game) \in games THEN 1 ELSE 2)]_vars

\* The driver has just saved a new stub that its enrichment had saved
\* before: the game had its id when the driver's call began.
C19_Witness ==
  /\ hist.ev.kind = "body"
  /\ ~hist.ev.seen
  /\ hist.ev.how = "saved"
  /\ hist.ev.id_before # None
  /\ hist.ev.id_after = hist.ev.id_before
  /\ Len(db.games) = 1

(***************************************************************************)
(* SpecLive: a run of parse_home_page that keeps running                   *)
(***************************************************************************)
\* The program is one thread that executes its next statement as long as it
\* has one.
SpecLive == Init /\ [][Next]_vars /\ WF_vars(Next)

\* C20: every run comes to its end with an empty queue.
C20_EndsWithEmptyQueue ==
  <>(home.pc \in {"done", "aborted"} /\ player_queue = <<>>)

====
